---- MODULE Spec2Model ----
(***************************************************************************)
(* The view materialization engine of analyzer/analyzer_lib.py:            *)
(* Analyzer._get_df behind functools.lru_cache, the per-dataset dataframe  *)
(* cache (_df_cache_by_dataset), the transform index                       *)
(* (_data_view_transforms_by_dataset_id) and the resolver                  *)
(* get_id_of_best_base_df.                                                 *)
(*                                                                         *)
(* analyzer_lib.py ends inside the transform loop of _get_df (line 96).    *)
(* What follows that line (applying a transform, storing the result,       *)
(* registering the view) and the resolver are modelled from spec.md        *)
(* sections 4.1 to 4.3; every such definition says so.                     *)
(*                                                                         *)
(* Next to the engine: the history keys of data_view/handler.py            *)
(* (HistoryKey and its persisted form), and of contrib/autocat_lib.py the  *)
(* corpus (Corpus.add_entry), its processor (CorpusProcessor), the         *)
(* time-weighted token counts                                              *)
(* (_get_time_weighted_counts, _count_tokens_in_time_window), the category *)
(* count heuristic and the initial category tree. autocat_lib.py ends      *)
(* inside the loop of _build_initial_category_tree (line 449).             *)
(***************************************************************************)
EXTENDS Integers, Sequences, FiniteSets, TLC

(***************************************************************************)
(* Bounds of the model.                                                    *)
(***************************************************************************)
\* functools.lru_cache(maxsize=128) on _get_df (analyzer_lib.py:69), scaled
\* down so that an eviction from the memo happens within MaxRequests.
maxsize == 2

\* Capacity of one dataset's dataframe cache (spec.md 4.2: default 128),
\* scaled down like maxsize.
Capacity == 2

\* Length of the target transform lists handed to the resolver.
MaxLen == 3

\* Request threads of the web server, and the requests they make in all.
NThreads == 2

MaxRequests == 4

\* Depth of the call stack at which Python raises RecursionError
\* (sys.getrecursionlimit(), 1000 by default), scaled down like maxsize: the
\* longest chain of base views here is three calls deep.
recursionlimit == 4

\* Length of the user ids and dataset ids a HistoryKey is built from.
MaxIdLen == 2

\* Number of entries added to one corpus.
MaxEntries == 3

\* Number of tokens of the Counter handed to _category_count_heuristic.
MaxTokens == 8

\* Number of tokens of the Counter a category tree is built from, and the
\* number of times the tree is built from it.
MaxTreeTokens == 3

MaxBuilds == 2

(***************************************************************************)
(* Transforms and dataframes.                                              *)
(***************************************************************************)
None == "None"

\* analyzer.constraint_lib: FilterTransform and EnrichmentTransform values,
\* the ones of the example of spec.md 8 and a filter on the enrichment's
\* column, which fails when that column is missing (spec.md 4.3, Failure).
FilterAge == "Filter(age<30)"
EnrichCategory == "Enrich(category)"
FilterCategory == "Filter(category=y)"

Transform == {FilterAge, EnrichCategory, FilterCategory}

IsFilterTransform(t) == t \in {FilterAge, FilterCategory}

\* The column a filter reads, or an enrichment writes.
ColumnOf(t) == IF t = FilterAge THEN "age" ELSE "category"

\* The rows (of the three-row base table) a filter's predicate keeps.
RowsKept(t) == IF t = FilterAge THEN {1, 2} ELSE {2, 3}

DatasetId == {"d1", "d2"}

SeqToSet(s) == {s[i] : i \in 1..Len(s)}

NoDf == [rows |-> {}, cols |-> <<>>]

\* Analyzer.active_dataframe (called at analyzer_lib.py:92, defined outside
\* src/; spec.md 6, load_base_dataframe): the raw base dataframe of a view's
\* dataset.
active_dataframe(data_view) ==
    IF data_view.dataset_id = "d1"
    THEN [rows |-> {1, 2, 3}, cols |-> <<"age">>]
    ELSE [rows |-> {1, 3}, cols |-> <<"age">>]

\* One iteration of the transform loop (spec.md 4.3 step 4 and its Failure
\* paragraph): a filter removes the rows that do not match and fails when
\* the column it reads is missing; an enrichment adds its column (or
\* rewrites it in place) and removes no row.
ApplyTransform(df, t) ==
    IF IsFilterTransform(t)
    THEN IF ColumnOf(t) \in SeqToSet(df.cols)
         THEN [ok |-> TRUE, df |-> [df EXCEPT !.rows = df.rows \cap RowsKept(t)]]
         ELSE [ok |-> FALSE, df |-> NoDf]
    ELSE IF ColumnOf(t) \in SeqToSet(df.cols)
         THEN [ok |-> TRUE, df |-> df]
         ELSE [ok |-> TRUE, df |-> [df EXCEPT !.cols = Append(df.cols, ColumnOf(t))]]

\* The loop of analyzer_lib.py:95: the transforms in list order, stopping at
\* the first one that fails. applied lists the transforms that were applied.
RECURSIVE ApplyTransforms(_, _, _)
ApplyTransforms(df, transforms, applied) ==
    IF transforms = <<>>
    THEN [ok |-> TRUE, df |-> df, applied |-> applied]
    ELSE LET r == ApplyTransform(df, Head(transforms))
         IN IF r.ok
            THEN ApplyTransforms(r.df, Tail(transforms),
                                 Append(applied, Head(transforms)))
            ELSE [ok |-> FALSE, df |-> NoDf, applied |-> applied]

(***************************************************************************)
(* The data views known to the DataViewHandler: id, dataset, transforms.   *)
(***************************************************************************)
DataViews ==
    { [id |-> "V0", dataset_id |-> "d1", transforms |-> <<>>],
      [id |-> "A",  dataset_id |-> "d1", transforms |-> <<FilterAge>>],
      [id |-> "B",  dataset_id |-> "d1",
       transforms |-> <<FilterAge, EnrichCategory>>],
      [id |-> "C",  dataset_id |-> "d1",
       transforms |-> <<FilterAge, EnrichCategory, FilterCategory>>],
      [id |-> "D",  dataset_id |-> "d1",
       transforms |-> <<EnrichCategory, FilterAge>>],
      [id |-> "E",  dataset_id |-> "d1",
       transforms |-> <<FilterAge, FilterCategory>>],
      [id |-> "V2", dataset_id |-> "d2", transforms |-> <<>>],
      [id |-> "A2", dataset_id |-> "d2", transforms |-> <<FilterAge>>] }

DataViewId == {v.id : v \in DataViews}

\* Analyzer.rich_data_view (called at analyzer_lib.py:87, defined outside
\* src/): the view of an id.
rich_data_view(data_view_id) == CHOOSE v \in DataViews : v.id = data_view_id

(***************************************************************************)
(* Recency-ordered stores: a sequence of [id, df], oldest first.           *)
(***************************************************************************)
Keys(store) == {store[i].id : i \in 1..Len(store)}

IndexOf(store, id) == CHOOSE i \in 1..Len(store) : store[i].id = id

ValueOf(store, id) == store[IndexOf(store, id)].df

Remove(store, id) == SelectSeq(store, LAMBDA e : e.id # id)

MoveToEnd(store, id) ==
    Append(Remove(store, id), store[IndexOf(store, id)])

\* A new entry at the most-recent end; at capacity the oldest entry goes
\* (the eviction of functools.lru_cache, and of the dataframe cache's put).
Insert(store, entry, cap) ==
    IF Len(store) >= cap
    THEN Append(Tail(store), entry)
    ELSE Append(store, entry)

(***************************************************************************)
(* functools.lru_cache(maxsize=128), the decorator of _get_df, keyed by    *)
(* the data view.                                                          *)
(***************************************************************************)
\* After the wrapped function returned: the result is stored unless the key
\* got in meanwhile; a full memo evicts its least recently used entry. A
\* call that raised stores nothing.
lru_cache_store(cache, id, df) ==
    IF id \in Keys(cache)
    THEN cache
    ELSE Insert(cache, [id |-> id, df |-> df], maxsize)

(***************************************************************************)
(* The dataframe cache of one dataset (spec.md 4.2), an OrderedDict in     *)
(* _df_cache_by_dataset. get and put are modelled from spec.md: the source *)
(* under src/ holds only the membership test of analyzer_lib.py:77.        *)
(***************************************************************************)
\* get on a hit refreshes recency.
DataFrameCache_get(cache, id) == MoveToEnd(cache, id)

\* put beyond capacity evicts the least recently used entry.
DataFrameCache_put(cache, id, df) ==
    IF id \in Keys(cache)
    THEN Append(Remove(cache, id), [id |-> id, df |-> df])
    ELSE Insert(cache, [id |-> id, df |-> df], Capacity)

(***************************************************************************)
(* The transform index of one dataset: a set of entries [id, set, list],   *)
(* one per registered view. set is the value the source's index holds      *)
(* (Set[Transform], analyzer_lib.py:32); list is the second component of   *)
(* spec.md 3, TransformIndex, which the resolver is not handed.            *)
(***************************************************************************)
IndexedIds(index) == {e.id : e \in index}

\* (a variant of Register that keeps the transforms in another order than
\* the view's, as a list rebuilt from the set would)
RegisterReversed(index, data_view) ==
    {e \in index : e.id # data_view.id}
        \cup {[id |-> data_view.id,
               set |-> SeqToSet(data_view.transforms),
               list |-> [i \in 1..Len(data_view.transforms) |->
                   data_view.transforms[Len(data_view.transforms) + 1 - i]]]}

\* spec.md 4.3 step 5: view.id -> (set(transforms), view.transforms).
Register(index, data_view) ==
    {e \in index : e.id # data_view.id}
        \cup {[id |-> data_view.id,
               set |-> SeqToSet(data_view.transforms),
               list |-> data_view.transforms]}

(***************************************************************************)
(* The resolver, Analyzer.get_id_of_best_base_df (spec.md 4.1), called at  *)
(* analyzer_lib.py:80-82 with the view's transform list and the dataset's  *)
(* Dict[DataViewId, Set[Transform]] (line 32). Of an indexed view it is    *)
(* handed the set of transforms only, so that set is all it decides by:    *)
(* the view is a base of the target when its k >= 1 transforms are, as a   *)
(* set, the first k of the target; the largest k wins and the target's     *)
(* transforms after the first k remain.                                    *)
(***************************************************************************)
Prefix(transforms, k) == SubSeq(transforms, 1, k)

Suffix(transforms, k) == SubSeq(transforms, k + 1, Len(transforms))

\* The set test of spec.md 3, then the prefix as far as a set can tell it.
IsBaseOf(entry, target_transforms) ==
    LET k == Cardinality(entry.set)
    IN /\ k >= 1
       /\ entry.set \subseteq SeqToSet(target_transforms)
       /\ k <= Len(target_transforms)
       /\ SeqToSet(Prefix(target_transforms, k)) = entry.set

get_id_of_best_base_df(target_transforms, transforms_by_data_view_id) ==
    LET matches == {e \in transforms_by_data_view_id :
                        IsBaseOf(e, target_transforms)}
    IN IF matches = {}
       THEN [id |-> None, remaining |-> target_transforms]
       ELSE LET best == CHOOSE e \in matches :
                            \A o \in matches :
                                Cardinality(o.set) <= Cardinality(e.set)
            IN [id |-> best.id,
                remaining |-> Suffix(target_transforms,
                                     Cardinality(best.set))]

(***************************************************************************)
(* Strings. A str is the tuple of its characters, so that join, split,     *)
(* startswith and the substring test are computed on the characters.       *)
(***************************************************************************)
Strings(alphabet, n) == UNION {[1..k -> alphabet] : k \in 0..n}

\* str.split(sep) for a one-character separator: the pieces between its
\* occurrences, empty pieces included.
RECURSIVE split(_, _)
split(s, sep) ==
    IF \A i \in 1..Len(s) : s[i] # sep
    THEN <<s>>
    ELSE LET i == CHOOSE i \in 1..Len(s) :
                      s[i] = sep /\ \A j \in 1..(i - 1) : s[j] # sep
         IN <<SubSeq(s, 1, i - 1)>> \o split(SubSeq(s, i + 1, Len(s)), sep)

startswith(s, prefix) ==
    Len(prefix) <= Len(s) /\ SubSeq(s, 1, Len(prefix)) = prefix

endswith(s, suffix) ==
    Len(suffix) <= Len(s)
    /\ SubSeq(s, Len(s) - Len(suffix) + 1, Len(s)) = suffix

\* Python's "sub in s" on strings.
contains(s, sub) ==
    \E i \in 1..(Len(s) + 1) : startswith(SubSeq(s, i, Len(s)), sub)

(***************************************************************************)
(* data_view/handler.py: HistoryKey, the (user_id, dataset_id) pair the    *)
(* data view history is keyed by, its persisted form, and the dict of the  *)
(* DataViewHistoryHandler.                                                 *)
(***************************************************************************)
\* HistoryKey.SEPARATOR
SEPARATOR == "_"

\* The characters ids are made of here: a digit and the separator.
IdAlphabet == {"1", SEPARATOR}

\* The dataset ids, of up to MaxIdLen characters, and the user ids, of one
\* character less.
DatasetIds == Strings(IdAlphabet, MaxIdLen)

UserIds == Strings(IdAlphabet, MaxIdLen - 1)

\* (a variant of HistoryKey that keeps the user id only)
HistoryKeyUserOnly(user_id, dataset_id) == <<user_id, user_id>>

\* HistoryKey.__new__: the tuple (user_id, dataset_id). Equality and hashing
\* are the tuple's.
HistoryKey(user_id, dataset_id) == <<user_id, dataset_id>>

\* HistoryKey.serialize: SEPARATOR.join([user_id, dataset_id])
HistoryKey_serialize(key) == key[1] \o <<SEPARATOR>> \o key[2]

\* HistoryKey.deserialize: "user_id, dataset_id = s.split(SEPARATOR)" raises
\* ValueError unless the split yields exactly two pieces.
HistoryKey_deserialize(s) ==
    LET pieces == split(s, SEPARATOR)
    IN IF Len(pieces) = 2
       THEN [outcome |-> "ok", key |-> HistoryKey(pieces[1], pieces[2])]
       ELSE [outcome |-> "ValueError", key |-> <<>>]

\* The code point of a character of IdAlphabet; Python orders str by them.
ord(c) == IF c = "1" THEN 49 ELSE 95

\* a < b on str: at the first place where they differ a has the lower
\* character, or a ends there.
StrLess(a, b) ==
    \E i \in 1..(Len(a) + 1) :
        /\ i <= Len(b)
        /\ SubSeq(a, 1, i - 1) = SubSeq(b, 1, i - 1)
        /\ i <= Len(a) => ord(a[i]) < ord(b[i])

\* key1 < key2: HistoryKey defines no order of its own, so keys are ordered
\* as tuples.
KeyLess(key1, key2) ==
    \/ StrLess(key1[1], key2[1])
    \/ key1[1] = key2[1] /\ StrLess(key1[2], key2[2])

\* sorted(keys), for keys that differ from each other
RECURSIVE sorted(_)
sorted(keys) ==
    IF keys = {} THEN <<>>
    ELSE LET least == CHOOSE k \in keys :
                          \A o \in keys \ {k} : KeyLess(k, o)
         IN <<least>> \o sorted(keys \ {least})

\* A dict as the sequence of its [key, value] items in insertion order:
\* dict[key] = value, dict[key] and dict.keys().
DictSet(dict, key, value) ==
    IF \E i \in 1..Len(dict) : dict[i].key = key
    THEN [i \in 1..Len(dict) |->
            IF dict[i].key = key THEN [dict[i] EXCEPT !.value = value]
            ELSE dict[i]]
    ELSE Append(dict, [key |-> key, value |-> value])

DictGet(dict, key) ==
    dict[CHOOSE i \in 1..Len(dict) : dict[i].key = key].value

DictKeys(dict) == {dict[i].key : i \in 1..Len(dict)}

Items(dict) == {dict[i] : i \in 1..Len(dict)}

RECURSIVE DictOf(_, _)
DictOf(dict, items) ==
    IF items = <<>> THEN dict
    ELSE DictOf(DictSet(dict, Head(items).key, Head(items).value), Tail(items))

\* DataViewHistoryHandler.serialize: {key.serialize(): value} over the
\* sorted keys of the history.
DataViewHistoryHandler_serialize(data_view_history) ==
    LET sorted_keys == sorted(DictKeys(data_view_history))
    IN DictOf(<<>>, [i \in 1..Len(sorted_keys) |->
                       [key |-> HistoryKey_serialize(sorted_keys[i]),
                        value |-> DictGet(data_view_history, sorted_keys[i])]])

\* DataViewHistoryHandler.deserialize: {HistoryKey.deserialize(key): value}
\* over the items of the dict; the ValueError of one key ends the call. The
\* values are data view ids, which DataViewId(value) leaves as they are.
DataViewHistoryHandler_deserialize(d) ==
    IF \E i \in 1..Len(d) : HistoryKey_deserialize(d[i].key).outcome # "ok"
    THEN [outcome |-> "ValueError", history |-> <<>>]
    ELSE [outcome |-> "ok",
          history |-> DictOf(<<>>, [i \in 1..Len(d) |->
                                      [key |-> HistoryKey_deserialize(d[i].key).key,
                                       value |-> d[i].value]])]

\* SerializableHandler._save and _load are in analyzer.utils, which is not
\* under src/. From spec.md (the view history is a JSON file keyed by the
\* composite string key): _save writes what serialize() returns to the file
\* of the path, and _load returns what deserialize makes of the file's
\* content; it raises when there is no file or the file cannot be read. A
\* file is <<>> when there is none, and <<d>> when it holds the dict d.
_save(data_view_history) ==
    <<DataViewHistoryHandler_serialize(data_view_history)>>

_load(file, readable) ==
    IF file = <<>> \/ ~readable
    THEN [outcome |-> "OSError", history |-> <<>>]
    ELSE DataViewHistoryHandler_deserialize(file[1])

\* DataViewHistoryHandler.load: the history becomes what _load returns, and
\* the empty dict when _load raises.
DataViewHistoryHandler_load(file, readable) ==
    LET r == _load(file, readable)
    IN IF r.outcome = "ok" THEN r.history ELSE <<>>

\* What has been done with the two keys: whether they were compared and how
\* the comparison ended; how many of them were set in the handler, the
\* handler's history and its file, and the last serialize(): the dict it
\* returned, the history it was made of, and what deserialize has made of
\* that dict since.
NoKeyResult == [compared |-> FALSE, equal |-> FALSE, equal_back |-> FALSE,
                equal_self |-> FALSE, nset |-> 0, data_view_history |-> <<>>,
                file |-> <<>>, serialized |-> <<>>]

(***************************************************************************)
(* contrib/autocat_lib.py: the corpus and the time-weighted token counts.  *)
(* A dict is a function on its keys; a Counter is the sequence of its      *)
(* [token, count] items in insertion order, which most_common() keeps      *)
(* among equal counts.                                                     *)
(***************************************************************************)
Get(dict, key, default) == IF key \in DOMAIN dict THEN dict[key] ELSE default

Put(dict, key, value) ==
    [k \in DOMAIN dict \cup {key} |-> IF k = key THEN value ELSE dict[k]]

RECURSIVE Concat(_)
Concat(seqs) == IF seqs = <<>> THEN <<>> ELSE Head(seqs) \o Concat(Tail(seqs))

\* SPACE (autocat_lib.py:24)
SPACE == " "

\* The token strings of the texts below.
t_tax == <<"t", "a", "x">>
t_vat == <<"v", "a", "t">>
t_form == <<"f", "o", "r", "m">>
t_tax_form == t_tax \o <<SPACE>> \o t_form
t_tax_vat == t_tax \o <<SPACE>> \o t_vat
t_x == <<"x">>
t_spam == <<"s", "p", "a", "m">>

\* The texts of the entries.
Texts == {"file tax x", "spam about tax form"}

\* TextProcessor.process(text, doc_id).items(): the token strings of a text,
\* each once, with the dependency role (dep_) spaCy gave the token. The
\* parser is a library; its output for the texts above is given as a table.
process(text) ==
    IF text = "file tax x"
    THEN <<[string |-> t_tax, dep |-> "dobj"],
           [string |-> t_x, dep |-> "pobj"]>>
    ELSE <<[string |-> t_tax_form, dep |-> "ROOT"],
           [string |-> t_spam, dep |-> "nsubj"]>>

\* The ages, in days, of the entries: weeks 0, 2, 3 and 9.
AgeDays == {6, 20, 27, 63}

\* Corpus.__init__
Corpus == [ids_by_age |-> <<>>, token_entry_lookup |-> <<>>,
           tokens_by_id |-> <<>>,
           age_in_weeks_max |-> -1, age_in_weeks_min |-> 520000]

Min2(a, b) == IF a <= b THEN a ELSE b

Max2(a, b) == IF a >= b THEN a ELSE b

\* (a variant of add_entry that files the entry under its age in days)
add_entry_days(corpus, entry) ==
    [corpus EXCEPT
        !.ids_by_age = Put(@, entry.age, Append(Get(@, entry.age, <<>>), entry.id)),
        !.age_in_weeks_max = Max2(entry.age, @),
        !.age_in_weeks_min = Min2(entry.age, @)]

\* Corpus.add_entry. The maps between entry id, primary key and raw text
\* take no part in the counts and are left out.
add_entry(corpus, entry) ==
    LET age_in_weeks == entry.age \div 7
        items == process(entry.text)
        strings == [i \in 1..Len(items) |-> items[i].string]
        TokenEntry(item) ==
            [id |-> entry.id, age |-> age_in_weeks, dep |-> item.dep]
        added(token) ==
            LET i == CHOOSE i \in 1..Len(items) : items[i].string = token
            IN <<TokenEntry(items[i])>>
    IN [corpus EXCEPT
         !.ids_by_age =
             Put(@, age_in_weeks, Append(Get(@, age_in_weeks, <<>>), entry.id)),
         !.age_in_weeks_max = Max2(age_in_weeks, @),
         !.age_in_weeks_min = Min2(age_in_weeks, @),
         !.token_entry_lookup =
             [token \in DOMAIN @ \cup SeqToSet(strings) |->
                 Get(@, token, <<>>)
                 \o (IF token \in SeqToSet(strings) THEN added(token) ELSE <<>>)],
         !.tokens_by_id =
             IF strings = <<>> THEN @
             ELSE Put(@, entry.id, Get(@, entry.id, <<>>) \o strings)]

\* Counter: counter[token] += n, and counter[token]
CounterAdd(counter, token, n) ==
    IF \E i \in 1..Len(counter) : counter[i].token = token
    THEN [i \in 1..Len(counter) |->
            IF counter[i].token = token
            THEN [counter[i] EXCEPT !.count = @ + n]
            ELSE counter[i]]
    ELSE Append(counter, [token |-> token, count |-> n])

CounterGet(counter, token) ==
    IF \E i \in 1..Len(counter) : counter[i].token = token
    THEN counter[CHOOSE i \in 1..Len(counter) : counter[i].token = token].count
    ELSE 0

\* range(a, b + 1)
Range(a, b) == [i \in 1..(b - a + 1) |-> a + i - 1]

\* include_deps of _build_category_tree (autocat_lib.py:297)
include_deps == {"dobj", "pobj", "ROOT", "appos"}

\* entry_ids: Optional[List[EntryId]]. None is [none |-> TRUE]; a collection
\* is [none |-> FALSE, ids |-> its members].
NoEntryIds == [none |-> TRUE, ids |-> {}]

EntryIds(ids) == [none |-> FALSE, ids |-> ids]

\* autocat_lib.py:387 and 395: "set(entry_ids or [])", then
\* "if allowable_entry_ids and entry_id not in allowable_entry_ids". Both None
\* and an empty collection are falsy, and so is the empty set made of them.
allowable_entry_ids(entry_ids) ==
    LET ids == IF entry_ids.none \/ entry_ids.ids = {} THEN {}
               ELSE entry_ids.ids
    IN [filter |-> ids # {}, ids |-> ids]

\* "any(exclude_word in token for exclude_word in exclude_words)"
IsExcluded(token, exclude_words) ==
    \E exclude_word \in exclude_words : contains(token, exclude_word)

\* The loops of _count_tokens_in_time_window, as the sequence of the
\* (age, entry_id, token) the innermost body is reached with.
Visits(corpus, min_age, max_age, entry_ids) ==
    LET allowable == allowable_entry_ids(entry_ids)
        ages == Range(min_age, max_age)
        OfEntry(age, entry_id) ==
            LET tokens == Get(corpus.tokens_by_id, entry_id, <<>>)
            IN IF allowable.filter /\ entry_id \notin allowable.ids
               THEN <<>>
               ELSE [m \in 1..Len(tokens) |->
                       [age |-> age, entry_id |-> entry_id, token |-> tokens[m]]]
        OfAge(age) ==
            LET ids == Get(corpus.ids_by_age, age, <<>>)
            IN Concat([j \in 1..Len(ids) |-> OfEntry(age, ids[j])])
    IN Concat([k \in 1..Len(ages) |-> OfAge(ages[k])])

RECURSIVE CountVisits(_, _, _, _, _)
CountVisits(token_counts, visits, corpus, min_age, exclude_words) ==
    IF visits = <<>> THEN token_counts
    ELSE LET v == Head(visits)
             is_relevant(entry) ==
                 min_age <= entry.age /\ entry.age <= v.age
                 /\ entry.dep \in include_deps
             token_entries == Get(corpus.token_entry_lookup, v.token, <<>>)
             n == Cardinality({i \in 1..Len(token_entries) :
                                 /\ token_entries[i].id = v.entry_id
                                 /\ is_relevant(token_entries[i])})
         IN CountVisits(IF IsExcluded(v.token, exclude_words)
                        THEN token_counts
                        ELSE CounterAdd(token_counts, v.token, n),
                        Tail(visits), corpus, min_age, exclude_words)

\* CorpusProcessor._count_tokens_in_time_window
_count_tokens_in_time_window(corpus, min_age, max_age, exclude_words, entry_ids) ==
    CountVisits(<<>>, Visits(corpus, min_age, max_age, entry_ids),
                corpus, min_age, exclude_words)

\* min_len, base (here age_base) and min_age_exponent of
\* _get_time_weighted_counts
min_len == 2

age_base == 2

min_age_exponent == 2

\* The integer part of the logarithm of n >= 1 to the base b.
RECURSIVE FloorLog(_, _)
FloorLog(n, b) == IF n < b THEN 0 ELSE 1 + FloorLog(n \div b, b)

\* (a variant of Weight whose exponent is one higher)
WeightOneHigher(max_age_exponent, i) == age_base ^ (max_age_exponent - i - 1)

\* autocat_lib.py:350: weight = base ** (max_age_exponent - i - 2)
Weight(max_age_exponent, i) == age_base ^ (max_age_exponent - i - 2)

RECURSIVE AddAll(_, _)
AddAll(counter, items) ==
    IF items = <<>> THEN counter
    ELSE AddAll(CounterAdd(counter, Head(items).token, Head(items).count),
                Tail(items))

\* CorpusProcessor.__init__: age_in_weeks_max and age_in_weeks_min are copied
\* from the corpus as they are now (lines 261-262); ids_by_age,
\* token_entry_lookup and tokens_by_id are the corpus's own dicts (lines
\* 250-256), so the processor reads them as they are when it is used.
\* num_categories is None (line 265), here <<>>; a number n is <<n>>.
CorpusProcessor(corpus, exclude_words) ==
    [constructed |-> TRUE,
     age_in_weeks_max |-> corpus.age_in_weeks_max,
     age_in_weeks_min |-> corpus.age_in_weeks_min,
     exclude_words |-> exclude_words,
     num_categories |-> <<>>]

NoProcessor == [constructed |-> FALSE, age_in_weeks_max |-> -1,
                age_in_weeks_min |-> 520000, exclude_words |-> {},
                num_categories |-> <<>>]

\* CorpusProcessor._get_time_weighted_counts, with the windows it went
\* through next to the Counter it returns: self is the processor, corpus
\* the dicts it shares with the corpus. math.log raises ValueError for an
\* age_in_weeks_max of 0 or less; for 1 and more, int(1 + math.log(n, 2)) is
\* 1 + FloorLog(n, 2).
_get_time_weighted_counts(self, corpus, exclude_words, entry_ids) ==
    IF self.age_in_weeks_max <= 0
    THEN [outcome |-> "ValueError", windows |-> <<>>, counts |-> <<>>]
    ELSE
    LET max_age_exponent == 1 + FloorLog(self.age_in_weeks_max, age_base)
        exponents == Range(min_age_exponent, max_age_exponent)
        windows ==
            [k \in 1..Len(exponents) |->
                LET i == k - 1
                    age_exponent == exponents[k]
                    min_age == age_base ^ (age_exponent - 1) + 1
                    max_age == age_base ^ age_exponent
                IN [i |-> i, min_age |-> min_age, max_age |-> max_age,
                    weight |-> Weight(max_age_exponent, i),
                    token_counts |->
                        _count_tokens_in_time_window(
                            corpus, min_age, max_age, exclude_words, entry_ids)]]
        Weighted(w) ==
            LET kept == SelectSeq(w.token_counts,
                                  LAMBDA item : Len(item.token) >= min_len)
            IN [m \in 1..Len(kept) |->
                  [token |-> kept[m].token, count |-> w.weight * kept[m].count]]
    IN [outcome |-> "ok", windows |-> windows,
        counts |-> AddAll(<<>>, Concat([k \in 1..Len(windows) |->
                                           Weighted(windows[k])]))]

\* What the last build did: its outcome, the windows and counts of
\* _get_time_weighted_counts and the initial category tree made of them,
\* and what it was made with: the processor, the entry_ids, and the corpus
\* and the number of its entries at that time.
NotBuilt == [outcome |-> "none", windows |-> <<>>, counts |-> <<>>,
             category_tree |-> <<>>,
             processor |-> NoProcessor, entry_ids |-> NoEntryIds,
             corpus |-> Corpus, nentries |-> 0]

(***************************************************************************)
(* contrib/autocat_lib.py: the category count heuristic and the initial    *)
(* category tree.                                                          *)
(***************************************************************************)
\* Counter.most_common(): the items by falling count, items of equal count
\* in insertion order.
RECURSIVE most_common(_)
most_common(counter) ==
    IF counter = <<>> THEN <<>>
    ELSE LET i == CHOOSE i \in 1..Len(counter) :
                      /\ \A j \in 1..Len(counter) :
                            counter[j].count <= counter[i].count
                      /\ \A j \in 1..(i - 1) :
                            counter[j].count < counter[i].count
         IN <<counter[i]>>
            \o most_common(SubSeq(counter, 1, i - 1)
                           \o SubSeq(counter, i + 1, Len(counter)))

\* Counter.most_common(n)
most_common_n(counter, n) ==
    SubSeq(most_common(counter), 1, Min2(n, Len(counter)))

\* ignore_count of _category_count_heuristic
ignore_count == 5

\* (a variant of _category_count_heuristic that stops at the first count
\* below the count at rank ignore_count, whatever the ratio)
_category_count_heuristic_any_drop(counts) ==
    LET ranked == most_common(counts)
        n == Len(ranked)
        Breaks(i) == i >= ignore_count
                     /\ ranked[i + 1].count < ranked[ignore_count + 1].count
        i == IF n = 0 THEN 1
             ELSE IF \E j \in 0..(n - 1) : Breaks(j)
             THEN CHOOSE j \in 0..(n - 1) :
                      Breaks(j) /\ \A k \in 0..(j - 1) : ~Breaks(k)
             ELSE n - 1
    IN i * 4

\* CorpusProcessor._category_count_heuristic. i starts at 1 and is the index
\* the loop stopped at: the first one from ignore_count on whose count is
\* below half of top_count (the count at index ignore_count), else the last
\* index. "count < top_count / 2" is a true division: 2 * count < top_count.
_category_count_heuristic(counts) ==
    LET ranked == most_common(counts)
        n == Len(ranked)
        Breaks(i) == i >= ignore_count
                     /\ 2 * ranked[i + 1].count < ranked[ignore_count + 1].count
        i == IF n = 0 THEN 1
             ELSE IF \E j \in 0..(n - 1) : Breaks(j)
             THEN CHOOSE j \in 0..(n - 1) :
                      Breaks(j) /\ \A k \in 0..(j - 1) : ~Breaks(k)
             ELSE n - 1
    IN i * 4

\* filter_len_min, merge_len_min, categories_top_n and subcategories_top_n
\* of _build_initial_category_tree
filter_len_min == 3

merge_len_min == 4

categories_top_n == 50

subcategories_top_n == 100

filter_token(t) == Len(t) < filter_len_min

\* autocat_lib.py:426: the set of the words of the top tokens
TopWords(counts) ==
    UNION {SeqToSet(split(item.token, SPACE)) :
             item \in SeqToSet(most_common_n(counts, categories_top_n))}

\* The orders a set can be iterated in. The order in which Python iterates a
\* set of str follows the strings' hashes, which are salted anew for every
\* interpreter process.
IterationOrders(S) ==
    {order \in [1..Cardinality(S) -> S] :
        \A i, j \in 1..Cardinality(S) : order[i] = order[j] => i = j}

\* category_tree[category].append(token) on a defaultdict(list): the dict as
\* the sequence of its [category, members] items in insertion order.
TreeAppend(category_tree, category, token) ==
    IF \E i \in 1..Len(category_tree) : category_tree[i].category = category
    THEN [i \in 1..Len(category_tree) |->
            IF category_tree[i].category = category
            THEN [category_tree[i] EXCEPT !.members = Append(@, token)]
            ELSE category_tree[i]]
    ELSE Append(category_tree, [category |-> category, members |-> <<token>>])

RECURSIVE TreeAppendAll(_, _)
TreeAppendAll(category_tree, pairs) ==
    IF pairs = <<>> THEN category_tree
    ELSE TreeAppendAll(TreeAppend(category_tree, Head(pairs).category,
                                  Head(pairs).token),
                       Tail(pairs))

\* autocat_lib.py:442-449: a category shorter than merge_len_min matches a
\* token that starts with "category " or ends with " category". The list
\* given to any() is cut after these two at line 449; its third element is
\* taken to be the test of spc_category_spc, the string line 445 builds for
\* it: " category " somewhere in the token.
IsAffixOf(category, token) ==
    LET category_spc == category \o <<SPACE>>
        spc_category == <<SPACE>> \o category
        spc_category_spc == spc_category \o <<SPACE>>
    IN /\ Len(category) < merge_len_min
       /\ \/ startswith(token, category_spc)
          \/ endswith(token, spc_category)
          \/ contains(token, spc_category_spc)

\* CorpusProcessor._build_initial_category_tree, for the order (tokens_order)
\* in which line 430 iterates the set of line 426. The source ends inside
\* the loop of lines 439-449; that a matching token is appended to its
\* category's list is from spec.md (initial tree construction).
_build_initial_category_tree(counts, tokens_order) ==
    LET categories == SelectSeq(tokens_order, LAMBDA t : ~filter_token(t))
        top == most_common_n(counts, subcategories_top_n)
        OfToken(token) ==
            LET matching == SelectSeq(categories,
                                      LAMBDA c : IsAffixOf(c, token))
            IN [j \in 1..Len(matching) |->
                  [category |-> matching[j], token |-> token]]
    IN [categories |-> categories,
        num_categories |-> _category_count_heuristic(counts),
        category_tree |->
            TreeAppendAll(<<>>, Concat([k \in 1..Len(top) |->
                                           OfToken(top[k].token)]))]

(***************************************************************************)
(* State.                                                                  *)
(***************************************************************************)
VARIABLES
    lru_cache,      \* the memo of @lru_cache on _get_df: [id, df], oldest first
    df_cache_by_dataset,    \* Analyzer._df_cache_by_dataset
    data_view_transforms_by_dataset_id, \* the transform index per dataset
    accessed,       \* history: per dataset, the view ids in order of last access
    materialized,   \* history: the views whose transforms ran to the end
    last,           \* history: the call that returned last
    first_df,       \* history: per view, what its first successful call returned
    stacks,         \* per request thread, its _get_df calls in progress
    nrequests,      \* history: the number of requests threads have made
    corpus,         \* the Corpus
    added,          \* history: the entries added to the corpus, in order
    processor,      \* the CorpusProcessor made of the corpus
    built,          \* what the last build_model did, and with what inputs
    counts,         \* a Counter handed to _category_count_heuristic by itself
    heuristic,      \* whether it was called on it, and what it returned
    key_ids,        \* the user ids and dataset ids of two HistoryKeys
    key_result,     \* what has been done with the two keys
    tree_counts,    \* a Counter handed to _build_initial_category_tree by itself
    trees           \* what each such call made of it

\* The state of the materialization engine, and the state of the text models.
Engine == <<lru_cache, df_cache_by_dataset, data_view_transforms_by_dataset_id,
            accessed, materialized, last, first_df,
            stacks, nrequests>>

Text == <<corpus, added, processor, built, counts, heuristic, key_ids,
          key_result, tree_counts, trees>>

vars == <<lru_cache, df_cache_by_dataset, data_view_transforms_by_dataset_id,
          accessed, materialized, last, first_df,
          stacks, nrequests,
          corpus, added, processor, built, counts, heuristic, key_ids,
          key_result, tree_counts, trees>>

Touch(ids, id) == Append(SelectSeq(ids, LAMBDA x : x # id), id)

(***************************************************************************)
(* Analyzer._get_df (analyzer_lib.py:69-96). Each request runs _get_df on  *)
(* its own thread (spec.md 5), and the threads interleave between the      *)
(* steps of a call: _get_df takes no lock, Analyzer.__init__ (lines 49-67) *)
(* creates none, and the lru_cache wrapper of line 69 runs the body        *)
(* outside its own lock. Requests that come one after the other are the    *)
(* behaviours in which a thread runs its call to the end before the next   *)
(* request arrives.                                                        *)
(*                                                                         *)
(* A frame is one call of _get_df in progress: its view, where it stands   *)
(* (pc), the dataframe it holds, the transforms it still has to apply and  *)
(* whether it is computing the view (it found the view in neither cache).  *)
(* The other fields are the call's history: the transforms it applied,     *)
(* where its result came from, the resolver's base view, whether it stored *)
(* into the dataframe cache and, if so, that cache's keys and the access   *)
(* order right before the store and the keys the store evicted, and what   *)
(* the view's first successful call had returned when the call began.      *)
(***************************************************************************)
\* spec.md 4.3 step 5, after every transform succeeded: the result goes into
\* the dataset's dataframe cache and the view into its transform index.
Commit(s, data_view, df) ==
    LET d == data_view.dataset_id
    IN [s EXCEPT !.cache[d] = DataFrameCache_put(@, data_view.id, df),
                 !.index[d] = Register(@, data_view),
                 !.accessed[d] = Touch(@, data_view.id)]

\* analyzer_lib.py:77, "data_view_id not in df_cache", negated.
InDfCache(df_cache, data_view_id) == data_view_id \in Keys(df_cache)

Thread == 1..NThreads

\* A call of _get_df that has just been made.
Frame(data_view_id) ==
    [view |-> data_view_id, pc |-> "call", df |-> NoDf, transforms |-> <<>>,
     computing |-> FALSE, applied |-> <<>>, served |-> "computed",
     base |-> None, stored |-> FALSE, keys_before |-> {},
     accessed_before |-> <<>>, evicted |-> {},
     first |-> first_df[data_view_id]]

NoCall == [view |-> None, outcome |-> "none", df |-> NoDf, applied |-> <<>>,
           served |-> "none", base |-> None, stored |-> FALSE,
           keys_before |-> {}, accessed_before |-> <<>>,
           evicted |-> {}, in_df_cache |-> FALSE, first |-> <<>>]

EngineInit ==
    /\ lru_cache = <<>>
    /\ df_cache_by_dataset = [d \in DatasetId |-> <<>>]
    /\ data_view_transforms_by_dataset_id = [d \in DatasetId |-> {}]
    /\ accessed = [d \in DatasetId |-> <<>>]
    /\ materialized = {}
    /\ last = NoCall
    /\ first_df = [id \in DataViewId |-> <<>>]
    /\ stacks = [t \in Thread |-> <<>>]
    /\ nrequests = 0

\* The text models before anything is done with them.
CorpusIdle ==
    corpus = Corpus /\ added = <<>> /\ processor = NoProcessor
    /\ built = NotBuilt

NotCalled == [called |-> FALSE, result |-> 0]

HeuristicIdle == counts = <<>> /\ heuristic = NotCalled

KeyIdle ==
    /\ key_ids = [user_id1 |-> <<>>, dataset_id1 |-> <<>>,
                  user_id2 |-> <<>>, dataset_id2 |-> <<>>]
    /\ key_result = NoKeyResult

TreeIdle == tree_counts = <<>> /\ trees = <<>>

Init == EngineInit /\ CorpusIdle /\ HeuristicIdle /\ KeyIdle /\ TreeIdle

Top(t) == stacks[t][Len(stacks[t])]

SetTop(t, frame) == [stacks EXCEPT ![t][Len(stacks[t])] = frame]

State == [memo |-> lru_cache, cache |-> df_cache_by_dataset,
          index |-> data_view_transforms_by_dataset_id, accessed |-> accessed]

SetState(s) ==
    /\ lru_cache' = s.memo
    /\ df_cache_by_dataset' = s.cache
    /\ data_view_transforms_by_dataset_id' = s.index
    /\ accessed' = s.accessed

\* The request of thread t is answered: its outermost call (frame) ended
\* with outcome. The call becomes the last one to have returned, and the
\* first successful call of a view is remembered.
Answer(t, frame, outcome, df, applied, base) ==
    LET data_view == rich_data_view(frame.view)
    IN /\ stacks' = [stacks EXCEPT ![t] = <<>>]
       /\ last' = [view |-> frame.view, outcome |-> outcome, df |-> df,
                   applied |-> applied, served |-> frame.served,
                   base |-> base, stored |-> frame.stored,
                   keys_before |-> frame.keys_before,
                   accessed_before |-> frame.accessed_before,
                   evicted |-> frame.evicted,
                   in_df_cache |->
                       frame.view \in Keys(df_cache_by_dataset[data_view.dataset_id]),
                   first |-> frame.first]
       /\ first_df' = IF outcome = "ok" /\ first_df[frame.view] = <<>>
                      THEN [first_df EXCEPT ![frame.view] = <<df>>]
                      ELSE first_df

\* A call returns df to its caller: the caller's loop goes on from df
\* (lines 87-89), or, for the outermost call, the request is answered.
ReturnTo(t, frame, df) ==
    IF Len(stacks[t]) = 1
    THEN Answer(t, frame, "ok", df, frame.applied, frame.base)
    ELSE /\ stacks' = [stacks EXCEPT ![t] =
                 [SubSeq(@, 1, Len(@) - 1) EXCEPT ![Len(@) - 1] =
                     [@ EXCEPT !.df = df, !.pc = "loop"]]]
         /\ UNCHANGED <<last, first_df>>

\* An exception unwinds every call of the thread; no wrapper stores. base is
\* the base view the call that raises had resolved to, when it is the
\* outermost one.
Raise(t, error, base) ==
    Answer(t, stacks[t][1], error, NoDf, Top(t).applied,
           IF Len(stacks[t]) = 1 THEN base ELSE stacks[t][1].base)

\* A request arrives on an idle thread and calls _get_df.
Request(t, data_view) ==
    /\ stacks[t] = <<>>
    /\ nrequests < MaxRequests
    /\ nrequests' = nrequests + 1
    /\ stacks' = [stacks EXCEPT ![t] = <<Frame(data_view.id)>>]
    /\ UNCHANGED <<lru_cache, df_cache_by_dataset,
                   data_view_transforms_by_dataset_id, accessed,
                   materialized, last, first_df, Text>>

\* The lru_cache wrapper of line 69 looks the view up: a hit returns the
\* memoized dataframe and makes the key the most recent one, a miss enters
\* the body.
Lookup(t) ==
    /\ stacks[t] # <<>>
    /\ Top(t).pc = "call"
    /\ LET id == Top(t).view
       IN IF id \in Keys(lru_cache)
          THEN /\ lru_cache' = MoveToEnd(lru_cache, id)
               /\ accessed' = [accessed EXCEPT
                      ![rich_data_view(id).dataset_id] = Touch(@, id)]
               /\ ReturnTo(t, [Top(t) EXCEPT !.served = "lru_cache"],
                           ValueOf(lru_cache, id))
          ELSE /\ stacks' = SetTop(t, [Top(t) EXCEPT !.pc = "body"])
               /\ UNCHANGED <<lru_cache, accessed, last, first_df>>
    /\ UNCHANGED <<df_cache_by_dataset, data_view_transforms_by_dataset_id,
                   nrequests, materialized, Text>>

\* analyzer_lib.py:71-78: the membership test of line 77. A view found in
\* the dataframe cache is returned from it; otherwise the call goes on to
\* the resolver.
Body(t) ==
    /\ stacks[t] # <<>>
    /\ Top(t).pc = "body"
    /\ LET data_view == rich_data_view(Top(t).view)
           dataset_id == data_view.dataset_id
           df_cache == df_cache_by_dataset[dataset_id]
       IN IF InDfCache(df_cache, data_view.id)
          THEN /\ df_cache_by_dataset' = [df_cache_by_dataset EXCEPT
                      ![dataset_id] = DataFrameCache_get(@, data_view.id)]
               /\ accessed' = [accessed EXCEPT
                      ![dataset_id] = Touch(@, data_view.id)]
               /\ stacks' = SetTop(t, [Top(t) EXCEPT !.pc = "return",
                                 !.df = ValueOf(df_cache, data_view.id),
                                 !.served = "df_cache"])
          ELSE /\ UNCHANGED <<df_cache_by_dataset, accessed>>
               /\ stacks' = SetTop(t, [Top(t) EXCEPT !.pc = "resolve"])
    /\ UNCHANGED <<lru_cache, data_view_transforms_by_dataset_id,
                   nrequests, materialized, last, first_df, Text>>

\* analyzer_lib.py:80-93: the resolver reads the transform index as it is
\* now; then either the call of line 87 for the base view, which goes
\* through the lru_cache wrapper like every call, or the load of the raw
\* base dataframe. When the resolver gives a view whose call is in progress
\* on this thread, that call finds the state it found before, the recursion
\* goes on, and Python raises RecursionError when the thread's stack would
\* get deeper than recursionlimit.
Resolve(t) ==
    /\ stacks[t] # <<>>
    /\ Top(t).pc = "resolve"
    /\ LET data_view == rich_data_view(Top(t).view)
           dataset_id == data_view.dataset_id
           best == get_id_of_best_base_df(data_view.transforms,
                       data_view_transforms_by_dataset_id[dataset_id])
       IN IF best.id # None
          THEN IF Len(stacks[t]) >= recursionlimit
               THEN Raise(t, "RecursionError", best.id)
               ELSE /\ stacks' = [stacks EXCEPT ![t] = Append(
                           [@ EXCEPT ![Len(@)] = [@ EXCEPT
                               !.pc = "await",
                               !.transforms = best.remaining,
                               !.base = best.id,
                               !.computing = TRUE]],
                           Frame(best.id))]
                    /\ UNCHANGED <<last, first_df>>
          ELSE /\ stacks' = SetTop(t, [Top(t) EXCEPT
                      !.pc = "loop",
                      !.df = active_dataframe(data_view),
                      !.transforms = data_view.transforms,
                      !.computing = TRUE])
               /\ UNCHANGED <<last, first_df>>
    /\ UNCHANGED <<lru_cache, df_cache_by_dataset,
                   data_view_transforms_by_dataset_id, accessed,
                   nrequests, materialized, Text>>

\* (a variant of Apply that stores what the loop reached when a transform
\* fails, before it raises)
ApplyStoringPartial(t) ==
    /\ stacks[t] # <<>>
    /\ Top(t).pc = "loop"
    /\ Top(t).transforms # <<>>
    /\ LET r == ApplyTransform(Top(t).df, Head(Top(t).transforms))
       IN IF r.ok
          THEN /\ stacks' = SetTop(t, [Top(t) EXCEPT !.df = r.df,
                                 !.transforms = Tail(@),
                                 !.applied = Append(@, Head(Top(t).transforms))])
               /\ UNCHANGED <<lru_cache, df_cache_by_dataset,
                              data_view_transforms_by_dataset_id, accessed,
                              last, first_df>>
          ELSE /\ SetState(Commit(State, rich_data_view(Top(t).view),
                                  Top(t).df))
               /\ Raise(t, "TransformApplicationError", Top(t).base)
    /\ UNCHANGED <<nrequests, materialized, Text>>

\* One iteration of the loop of analyzer_lib.py:95 (spec.md 4.3 step 4). A
\* transform that fails raises out of _get_df, and nothing of this view is
\* stored.
Apply(t) ==
    /\ stacks[t] # <<>>
    /\ Top(t).pc = "loop"
    /\ Top(t).transforms # <<>>
    /\ LET r == ApplyTransform(Top(t).df, Head(Top(t).transforms))
       IN IF r.ok
          THEN /\ stacks' = SetTop(t, [Top(t) EXCEPT !.df = r.df,
                                 !.transforms = Tail(@),
                                 !.applied = Append(@, Head(Top(t).transforms))])
               /\ UNCHANGED <<last, first_df>>
          ELSE Raise(t, "TransformApplicationError", Top(t).base)
    /\ UNCHANGED <<lru_cache, df_cache_by_dataset,
                   data_view_transforms_by_dataset_id, accessed, nrequests,
                   materialized, Text>>

\* The loop is through (spec.md 4.3 step 5): the result is stored in the
\* dataframe cache and the view registered in the transform index.
Store(t) ==
    /\ stacks[t] # <<>>
    /\ Top(t).pc = "loop"
    /\ Top(t).transforms = <<>>
    /\ LET data_view == rich_data_view(Top(t).view)
           d == data_view.dataset_id
           s == Commit(State, data_view, Top(t).df)
       IN /\ SetState(s)
          /\ stacks' = SetTop(t, [Top(t) EXCEPT
                 !.pc = "return",
                 !.stored = TRUE,
                 !.keys_before = Keys(df_cache_by_dataset[d]),
                 !.accessed_before = accessed[d],
                 !.evicted = Keys(df_cache_by_dataset[d]) \ Keys(s.cache[d])])
          /\ materialized' = materialized \cup {data_view.id}
    /\ UNCHANGED <<nrequests, last, first_df, Text>>

\* The body returned: the wrapper stores the result in the memo, unless the
\* key got in meanwhile; a full memo evicts its least recently used entry.
Return(t) ==
    /\ stacks[t] # <<>>
    /\ Top(t).pc = "return"
    /\ lru_cache' = lru_cache_store(lru_cache, Top(t).view, Top(t).df)
    /\ ReturnTo(t, Top(t), Top(t).df)
    /\ UNCHANGED <<df_cache_by_dataset, data_view_transforms_by_dataset_id,
                   accessed, nrequests, materialized, Text>>

Next ==
    \E t \in Thread :
        \/ \E data_view \in DataViews : Request(t, data_view)
        \/ Lookup(t)
        \/ Body(t)
        \/ Resolve(t)
        \/ Apply(t)
        \/ Store(t)
        \/ Return(t)

Spec == Init /\ [][Next]_vars

(***************************************************************************)
(* The history keys: two keys made of ids are compared and set in the      *)
(* history of a handler, which is saved, loaded, serialized and            *)
(* deserialized.                                                           *)
(***************************************************************************)
Key1 == HistoryKey(key_ids.user_id1, key_ids.dataset_id1)

Key2 == HistoryKey(key_ids.user_id2, key_ids.dataset_id2)

InitKey ==
    /\ EngineInit /\ CorpusIdle /\ HeuristicIdle /\ TreeIdle
    /\ key_ids \in [user_id1 : UserIds, dataset_id1 : DatasetIds,
                    user_id2 : UserIds, dataset_id2 : DatasetIds]
    /\ key_result = NoKeyResult

\* key1 == key2, key2 == key1 and key1 == key1
Compare ==
    /\ ~key_result.compared
    /\ key_result' = [key_result EXCEPT !.compared = TRUE,
                                        !.equal = (Key1 = Key2),
                                        !.equal_back = (Key2 = Key1),
                                        !.equal_self = (Key1 = Key1)]
    /\ UNCHANGED <<Engine, corpus, added, processor, built, counts, heuristic,
                   key_ids, tree_counts, trees>>

\* DataViewHistoryHandler.set: the next of the two keys gets a data view id
\* (set_key, line 105), and save() passes the path to _save (_loaded is
\* true since __init__).
SetKey ==
    /\ key_result.nset < 2
    /\ LET key == IF key_result.nset = 0 THEN Key1 ELSE Key2
           data_view_id == IF key_result.nset = 0 THEN "A" ELSE "B"
           history == DictSet(key_result.data_view_history, key, data_view_id)
       IN key_result' =
              [key_result EXCEPT
                  !.nset = @ + 1,
                  !.data_view_history = history,
                  !.file = _save(history)]
    /\ UNCHANGED <<Engine, corpus, added, processor, built, counts, heuristic,
                   key_ids, tree_counts, trees>>

\* DataViewHistoryHandler.save (handler.py:85-89): _loaded is true since
\* __init__ (load sets it on either path, line 83), so the early return of
\* line 86 is never taken and the history the handler holds goes to the file.
Save ==
    /\ key_result' =
           [key_result EXCEPT !.file = _save(key_result.data_view_history)]
    /\ UNCHANGED <<Engine, corpus, added, processor, built, counts, heuristic,
                   key_ids, tree_counts, trees>>

\* DataViewHistoryHandler.load: the handler reads its file again, which can
\* be read or not.
Load(readable) ==
    /\ key_result' =
           [key_result EXCEPT
               !.data_view_history =
                   DataViewHistoryHandler_load(key_result.file, readable)]
    /\ UNCHANGED <<Engine, corpus, added, processor, built, counts, heuristic,
                   key_ids, tree_counts, trees>>

\* DataViewHistoryHandler.serialize of the handler
Serialize ==
    /\ key_result' =
           [key_result EXCEPT
               !.serialized =
                   <<[d |-> DataViewHistoryHandler_serialize(
                                key_result.data_view_history),
                      history |-> key_result.data_view_history,
                      loaded |-> <<>>]>>]
    /\ UNCHANGED <<Engine, corpus, added, processor, built, counts, heuristic,
                   key_ids, tree_counts, trees>>

\* DataViewHistoryHandler.deserialize on the dict serialize() returned
Deserialize ==
    /\ key_result.serialized # <<>>
    /\ LET r == DataViewHistoryHandler_deserialize(key_result.serialized[1].d)
       IN key_result' =
              [key_result EXCEPT
                  !.serialized[1].loaded =
                      <<[outcome |-> r.outcome, history |-> r.history]>>]
    /\ UNCHANGED <<Engine, corpus, added, processor, built, counts, heuristic,
                   key_ids, tree_counts, trees>>

NextKey ==
    \/ Compare
    \/ SetKey
    \/ Save
    \/ \E readable \in BOOLEAN : Load(readable)
    \/ Serialize
    \/ Deserialize

SpecKey == InitKey /\ [][NextKey]_vars

(***************************************************************************)
(* The corpus and a processor of it: entries are added, a CorpusProcessor  *)
(* is made of the corpus, and build_model builds the time-weighted counts, *)
(* in any order.                                                           *)
(***************************************************************************)
InitCorpus ==
    /\ EngineInit /\ HeuristicIdle /\ KeyIdle /\ TreeIdle
    /\ CorpusIdle

\* Corpus.from_df: the next row becomes the entry with the next index.
AddEntry(age, text) ==
    /\ Len(added) < MaxEntries
    /\ LET entry == [id |-> Len(added), age |-> age, text |-> text]
       IN /\ corpus' = add_entry(corpus, entry)
          /\ added' = Append(added, entry)
    /\ UNCHANGED <<Engine, processor, built, counts, heuristic, key_ids,
                   key_result, tree_counts, trees>>

\* CorpusProcessor(corpus, exclude_words)
NewProcessor(exclude_words) ==
    /\ processor' = CorpusProcessor(corpus, exclude_words)
    /\ UNCHANGED <<Engine, corpus, added, built, counts, heuristic, key_ids,
                   key_result, tree_counts, trees>>

\* build_model(entry_ids) of the processor. _build_category_tree calls
\* _get_time_weighted_counts with the processor's exclude_words (line 300),
\* whose ValueError ends the build, and then _build_initial_category_tree
\* (line 310), which sets num_categories (line 437) and iterates the set of
\* line 426 in one of its orders. What follows, _merge_lower_rank_categories
\* (line 312) and _build_language_models (line 272), is not in src/ and
\* spec.md leaves the merge open; the tree they make of the initial one,
\* _category_tree (line 274), is not part of the state.
BuildCounts(entry_ids) ==
    /\ processor.constructed
    /\ \E r \in {_get_time_weighted_counts(processor, corpus,
                                           processor.exclude_words,
                                           entry_ids)} :
          LET Built(self, category_tree) ==
                  [outcome |-> r.outcome, windows |-> r.windows,
                   counts |-> r.counts, category_tree |-> category_tree,
                   processor |-> self, entry_ids |-> entry_ids,
                   corpus |-> corpus, nentries |-> Len(added)]
          IN IF r.outcome = "ok"
             THEN \E tree \in {_build_initial_category_tree(r.counts,
                                                            tokens_order) :
                                 tokens_order \in
                                     IterationOrders(TopWords(r.counts))} :
                     /\ processor' =
                            [processor EXCEPT
                                !.num_categories = <<tree.num_categories>>]
                     /\ built' = Built(processor', tree.category_tree)
             ELSE /\ built' = Built(processor, <<>>)
                  /\ UNCHANGED processor
    /\ UNCHANGED <<Engine, corpus, added, counts, heuristic,
                   key_ids, key_result, tree_counts, trees>>

\* The entry_ids build_model is called with: None, no id, the first id, the
\* second and the third.
EntryIdsGiven ==
    {NoEntryIds, EntryIds({}), EntryIds({0}), EntryIds({1, 2})}

\* The rows of the dataframe from_df reads: the first text at every age, the
\* second at the greatest.
Rows ==
    {[age |-> age, text |-> "file tax x"] : age \in AgeDays}
    \cup {[age |-> 63, text |-> "spam about tax form"]}

NextCorpus ==
    \/ \E row \in Rows : AddEntry(row.age, row.text)
    \/ \E exclude_words \in {{}, {t_tax}} : NewProcessor(exclude_words)
    \/ \E entry_ids \in EntryIdsGiven : BuildCounts(entry_ids)

SpecCorpus == InitCorpus /\ [][NextCorpus]_vars

(***************************************************************************)
(* The category count heuristic on a Counter.                              *)
(***************************************************************************)
\* The weighted counts of the tokens. A token whose occurrences all have an
\* excluded dependency role has the count 0.
CountValues == {0, 1, 2}

\* The Counters of up to MaxTokens tokens, the tokens named by their place.
Counters ==
    UNION {{[i \in 1..n |-> [token |-> i, count |-> c[i]]] :
              c \in [1..n -> CountValues]} : n \in 0..MaxTokens}

InitHeuristic ==
    /\ EngineInit /\ CorpusIdle /\ KeyIdle /\ TreeIdle
    /\ counts \in Counters
    /\ heuristic = NotCalled

Heuristic ==
    /\ ~heuristic.called
    /\ heuristic' = [called |-> TRUE,
                     result |-> _category_count_heuristic(counts)]
    /\ UNCHANGED <<Engine, corpus, added, processor, built, counts, key_ids,
                   key_result,
                   tree_counts, trees>>

NextHeuristic == Heuristic

SpecHeuristic == InitHeuristic /\ [][NextHeuristic]_vars

(***************************************************************************)
(* The initial category tree, built more than once from one Counter.       *)
(***************************************************************************)
TreeTokens == {t_tax, t_vat, t_tax_vat, t_tax_form}

TreeCounters ==
    UNION {{[i \in 1..Cardinality(T) |-> [token |-> ts[i], count |-> cs[i]]] :
              ts \in IterationOrders(T),
              cs \in [1..Cardinality(T) -> 1..2]} :
           T \in {T \in SUBSET TreeTokens : Cardinality(T) <= MaxTreeTokens}}

InitTree ==
    /\ EngineInit /\ CorpusIdle /\ HeuristicIdle /\ KeyIdle
    /\ tree_counts \in TreeCounters
    /\ trees = <<>>

\* One run of _build_initial_category_tree(counts), the set of line 426
\* iterated in one of its orders.
BuildTree ==
    /\ Len(trees) < MaxBuilds
    /\ \E tokens_order \in IterationOrders(TopWords(tree_counts)) :
          trees' = Append(trees,
                          _build_initial_category_tree(tree_counts, tokens_order))
    /\ UNCHANGED <<Engine, corpus, added, processor, built, counts, heuristic,
                   key_ids,
                   key_result, tree_counts>>

NextTree == BuildTree

SpecTree == InitTree /\ [][NextTree]_vars

(***************************************************************************)
(* Properties.                                                             *)
(***************************************************************************)
TargetLists == UNION {[1..n -> Transform] : n \in 0..MaxLen}

Max(S) == CHOOSE x \in S : \A y \in S : y <= x

\* The lengths k >= 1 for which a view of the index has exactly the
\* transforms target[:k], by the views' own transform lists.
IndexedPrefixLengths(target, index) ==
    {k \in 1..Len(target) :
        \E e \in index : rich_data_view(e.id).transforms = Prefix(target, k)}

\* C1: for every target list T and every index the program reaches, the
\* resolver returns the indexed view whose transforms are T[:k] for the
\* largest k >= 1 and the rest T[k:], and (None, T) when no indexed view is
\* a non-empty ordered prefix of T. The views' transform lists are the
\* DataViewHandler's (rich_data_view), not the resolver's input.
C1_PrefixCorrectness ==
    \A d \in DatasetId : \A T \in TargetLists :
        LET index == data_view_transforms_by_dataset_id[d]
            r == get_id_of_best_base_df(T, index)
            ks == IndexedPrefixLengths(T, index)
        IN IF ks = {}
           THEN r.id = None /\ r.remaining = T
           ELSE /\ r.id \in IndexedIds(index)
                /\ rich_data_view(r.id).transforms = Prefix(T, Max(ks))
                /\ r.remaining = Suffix(T, Max(ks))

\* C3: a call for a view that an earlier call has materialized (there is no
\* invalidation) returns the dataframe the first call returned and applies
\* no transform, however many other calls came in between.
C3_Idempotent ==
    (last.view # None /\ last.first # <<>>)
        => /\ last.outcome = "ok"
           /\ last.df = last.first[1]
           /\ last.applied = <<>>

\* The key accessed least recently, by the order of last access.
LeastRecentlyAccessed(keys, order) ==
    CHOOSE k \in keys :
        \A o \in keys :
            (CHOOSE i \in 1..Len(order) : order[i] = k)
                <= (CHOOSE i \in 1..Len(order) : order[i] = o)

\* C5: a store of a new view into a full dataframe cache evicts exactly one
\* entry, the one accessed least recently, a returned (read) view counting
\* as accessed.
C5_EvictsLeastRecentlyAccessed ==
    (/\ last.stored
     /\ last.view \notin last.keys_before
     /\ Cardinality(last.keys_before) >= Capacity)
        => last.evicted =
               {LeastRecentlyAccessed(last.keys_before, last.accessed_before)}

\* C6: the two cache levels agree: a view that is no longer in the memo of
\* _get_df is not in its dataset's dataframe cache either, and a call is
\* never served from the memo a view the dataframe cache does not hold. A
\* view stored by a call still in progress reaches the memo when that call
\* returns, so a view missing from the memo was evicted from it when no call
\* is in progress.
C6_CacheLevelsAgree ==
    /\ (\A t \in Thread : stacks[t] = <<>>)
           => \A d \in DatasetId :
                  Keys(df_cache_by_dataset[d]) \subseteq Keys(lru_cache)
    /\ last.served = "lru_cache" => last.in_df_cache

C8_RecursionTerminates ==
    /\ last.outcome # "RecursionError"
    /\ \A v \in DataViews :
           (/\ v.id \notin Keys(lru_cache)
            /\ v.id \notin Keys(df_cache_by_dataset[v.dataset_id]))
               => LET b == get_id_of_best_base_df(v.transforms,
                               data_view_transforms_by_dataset_id[v.dataset_id]).id
                  IN \/ b = None
                     \/ Len(rich_data_view(b).transforms) < Len(v.transforms)

\* C9: a call returns what applying all of the view's transforms in order
\* to the raw base dataframe gives (and fails only when that fails); a call
\* that computed from a base view applied exactly the transforms after the
\* base's.
C9_EqualsDirectApplication ==
    last.view # None
        => LET v == rich_data_view(last.view)
               direct == ApplyTransforms(active_dataframe(v), v.transforms, <<>>)
               k == IF last.base = None THEN 0
                    ELSE Len(rich_data_view(last.base).transforms)
           IN /\ direct.ok <=> last.outcome = "ok"
              /\ last.outcome = "ok" => last.df = direct.df
              /\ (last.outcome = "ok" /\ last.served = "computed")
                     => last.applied = Suffix(v.transforms, k)

Computing(id) ==
    {t \in Thread :
        \E i \in 1..Len(stacks[t]) :
            /\ stacks[t][i].view = id
            /\ stacks[t][i].computing
            /\ rich_data_view(id).transforms # <<>>}

\* C2: of the concurrent calls of _get_df for one view, at most one is
\* computing the view at any time: no second caller starts on the
\* transforms while the first is in flight.
C2_SingleFlight ==
    \A id \in DataViewId : Cardinality(Computing(id)) <= 1

\* C15: two history keys compare equal exactly when their user ids are equal
\* and their dataset ids are equal; the comparison gives the same answer in
\* both directions and a key equals itself.
C15_KeyEquality ==
    key_result.compared =>
        /\ key_result.equal <=> (/\ key_ids.user_id1 = key_ids.user_id2
                                 /\ key_ids.dataset_id1 = key_ids.dataset_id2)
        /\ key_result.equal_back = key_result.equal
        /\ key_result.equal_self

\* Two keys of one user and two datasets were compared, and found different.
C15_Witness ==
    /\ key_result.compared
    /\ key_ids.user_id1 = key_ids.user_id2
    /\ key_ids.dataset_id1 # key_ids.dataset_id2
    /\ ~key_result.equal

\* C17: the dict serialize() returns has one string key for each key of the
\* history, and what deserialize makes of that dict is the history again,
\* whatever the ids of the keys are.
C17_RoundTrip ==
    key_result.serialized # <<>> =>
        LET serialized == key_result.serialized[1]
        IN /\ Len(serialized.d) = Len(serialized.history)
           /\ serialized.loaded # <<>> =>
                 /\ serialized.loaded[1].outcome = "ok"
                 /\ Items(serialized.loaded[1].history)
                        = Items(serialized.history)

\* floor(age_days / 7), by its definition
FloorWeek(age_days) ==
    CHOOSE w \in 0..age_days : 7 * w <= age_days /\ age_days < 7 * (w + 1)

AddedWeeks == {FloorWeek(added[i].age) : i \in 1..Len(added)}

\* C13: once entries have been added, age_in_weeks_min and age_in_weeks_max
\* are the least and the greatest floor(age_days / 7) of the entries added,
\* and every entry id is listed once, in the bucket floor(age_days / 7) of its
\* entry and in no other bucket of ids_by_age.
C13_AgeBuckets ==
    added # <<>> =>
        /\ corpus.age_in_weeks_min \in AddedWeeks
        /\ corpus.age_in_weeks_max \in AddedWeeks
        /\ \A w \in AddedWeeks : /\ corpus.age_in_weeks_min <= w
                                 /\ w <= corpus.age_in_weeks_max
        /\ \A i \in 1..Len(added) :
              \A w \in DOMAIN corpus.ids_by_age \cup {FloorWeek(added[i].age)} :
                 LET bucket == Get(corpus.ids_by_age, w, <<>>)
                     places == {j \in 1..Len(bucket) : bucket[j] = added[i].id}
                 IN Cardinality(places)
                        = IF w = FloorWeek(added[i].age) THEN 1 ELSE 0

\* Entries of different weeks were added, two of them in one week.
C13_Witness ==
    /\ Len(added) >= 3
    /\ corpus.age_in_weeks_min < corpus.age_in_weeks_max
    /\ \E w \in DOMAIN corpus.ids_by_age : Len(corpus.ids_by_age[w]) = 2

RECURSIVE SumSeq(_)
SumSeq(numbers) ==
    IF numbers = <<>> THEN 0 ELSE Head(numbers) + SumSeq(Tail(numbers))

\* The entries the corpus had at the last build, and their token strings.
BuiltEntries == SubSeq(added, 1, built.nentries)

BuiltTokens == DOMAIN built.corpus.token_entry_lookup

\* The count of a token over all windows, unweighted and weighted.
CountInWindows(token) ==
    SumSeq([k \in 1..Len(built.windows) |->
               CounterGet(built.windows[k].token_counts, token)])

WeightedCountInWindows(token) ==
    SumSeq([k \in 1..Len(built.windows) |->
               built.windows[k].weight
               * CounterGet(built.windows[k].token_counts, token)])

\* The entries, among those with an id in ids, where the token occurs with
\* an included dependency role.
OccurrencesIn(token, ids) ==
    {i \in 1..Len(BuiltEntries) :
        /\ BuiltEntries[i].id \in ids
        /\ \E k \in 1..Len(process(BuiltEntries[i].text)) :
              /\ process(BuiltEntries[i].text)[k].string = token
              /\ process(BuiltEntries[i].text)[k].dep \in include_deps}

BuiltIds == {BuiltEntries[i].id : i \in 1..Len(BuiltEntries)}

WindowsOf(week) ==
    {k \in 1..Len(built.windows) :
        /\ built.windows[k].min_age <= week
        /\ week <= built.windows[k].max_age}

\* C12: the windows of _get_time_weighted_counts are pairwise disjoint and
\* every week from age_in_weeks_min to age_in_weeks_max of the corpus lies in
\* one of them, so that (with no entry_ids and no exclude words) the counts
\* of a token in the windows add up to the number of its occurrences with an
\* included dependency role in the entries of the corpus.
C12_WindowsPartitionAges ==
    built.outcome = "ok" =>
        /\ \A week \in built.corpus.age_in_weeks_min
                           ..built.corpus.age_in_weeks_max :
              Cardinality(WindowsOf(week)) = 1
        /\ (built.entry_ids.none /\ built.processor.exclude_words = {}) =>
              \A token \in BuiltTokens :
                 CountInWindows(token)
                     = Cardinality(OccurrencesIn(token, BuiltIds))

\* max_age_exponent, by its definition: the e with 2^(e-1) <= n < 2^e.
ExponentOf(n) == CHOOSE e \in 1..n : 2 ^ (e - 1) <= n /\ n < 2 ^ e

\* The weights of the windows: window i has weight 2^(max_age_exponent-i-2),
\* max_age_exponent being that of the processor's age_in_weeks_max; the
\* windows go from the youngest ages to the oldest, each weight is half the
\* one before, all are at least 1 and the last is 1.
WeightsHalve ==
    LET n == Len(built.windows)
    IN /\ \A k \in 1..n :
             /\ built.windows[k].i = k - 1
             /\ built.windows[k].weight >= 1
             /\ built.windows[k].weight
                    = 2 ^ (ExponentOf(built.processor.age_in_weeks_max)
                           - (k - 1) - 2)
       /\ \A k \in 1..(n - 1) :
             /\ built.windows[k].max_age < built.windows[k + 1].min_age
             /\ built.windows[k].weight = 2 * built.windows[k + 1].weight
       /\ n >= 1 => built.windows[n].weight = 1

\* C16 (as stated): the weights are as above, and the final count of every
\* token is the sum over the windows of weight times its count there.
C16_WeightedSumOfEveryToken ==
    built.outcome = "ok" =>
        /\ WeightsHalve
        /\ \A token \in BuiltTokens :
              CounterGet(built.counts, token) = WeightedCountInWindows(token)

\* C16 (amended): the weights are as above, and the final count of every
\* token of at least min_len characters is the sum over the windows of
\* weight times its count there; a shorter token has no final count.
C16_WeightedSum ==
    built.outcome = "ok" =>
        /\ WeightsHalve
        /\ \A token \in BuiltTokens :
              CounterGet(built.counts, token)
                  = IF Len(token) >= min_len
                    THEN WeightedCountInWindows(token) ELSE 0

\* Three windows, and a token counted in the first and in the last of them.
C16_Witness ==
    /\ built.outcome = "ok"
    /\ Len(built.windows) = 3
    /\ \E token \in BuiltTokens :
          /\ CounterGet(built.windows[1].token_counts, token) = 1
          /\ CounterGet(built.windows[3].token_counts, token) = 1
          /\ CounterGet(built.counts, token) = 5

\* C18: with a collection entry_ids, empty or not, only the entries whose id
\* is in it are counted: in the windows, a token is counted at most as often
\* as it occurs in those entries.
C18_OnlyEntryIdsCounted ==
    (built.outcome = "ok" /\ ~built.entry_ids.none) =>
        \A token \in BuiltTokens :
           CountInWindows(token)
               <= Cardinality(OccurrencesIn(token, built.entry_ids.ids))

\* The count at the 0-based rank i of the tokens in falling order of count:
\* fewer than i + 1 counts are above it, at least i + 1 are not below it.
RankCount(i) ==
    LET Above(v) == Cardinality({j \in 1..Len(counts) : counts[j].count > v})
        NotBelow(v) ==
            Cardinality({j \in 1..Len(counts) : counts[j].count >= v})
    IN CHOOSE v \in CountValues : Above(v) <= i /\ i < NotBelow(v)

\* The ranks from 5 on whose count is below half of the count at rank 5.
RanksBelowHalf ==
    {i \in 5..(Len(counts) - 1) : 2 * RankCount(i) < RankCount(5)}

FirstRankBelowHalf ==
    CHOOSE i \in RanksBelowHalf : \A j \in RanksBelowHalf : i <= j

\* C14 (as stated): for every Counter there is a first rank from 5 on whose
\* count is below half of the count at rank 5, and the heuristic returns 4
\* times that rank.
C14_FourTimesFirstRank ==
    heuristic.called =>
        /\ RanksBelowHalf # {}
        /\ heuristic.result = 4 * FirstRankBelowHalf

\* C14 (amended): when there is such a rank, the heuristic returns 4 times
\* the first one; when there is none, it returns 4 times the last rank,
\* and 4 for a Counter of no tokens.
C14_HeuristicRank ==
    heuristic.called =>
        heuristic.result =
            IF RanksBelowHalf # {} THEN 4 * FirstRankBelowHalf
            ELSE IF Len(counts) = 0 THEN 4
            ELSE 4 * (Len(counts) - 1)

\* The heuristic stopped at rank 6 of 8 tokens, whose count is below half of
\* the count at rank 5.
C14_Witness ==
    /\ heuristic.called
    /\ Len(counts) = 8
    /\ RanksBelowHalf # {}
    /\ FirstRankBelowHalf = 6
    /\ heuristic.result = 24

\* C11: every build of the initial category tree from one Counter gives the
\* same result: the same list of category names, and the same tree, with
\* the categories and the members of each category in the same order.
C11_BuildsAgree ==
    \A i, j \in 1..Len(trees) :
        /\ trees[i].categories = trees[j].categories
        /\ trees[i].category_tree = trees[j].category_tree

====
